---------------------------- MODULE Spec2Model ----------------------------
(***************************************************************************)
(* A model of congressionalrecord/process.py: the speech record processor  *)
(* (process_and_speech_data), term resolution (filter_terms) and the text  *)
(* normalization applied to every speech.                                  *)
(*                                                                         *)
(* Python strings are modelled as sequences of one-character strings, so   *)
(* that string comparison, replacement, stripping, formatting and length   *)
(* are computed the way Python computes them.  Python's None is PyNone.    *)
(***************************************************************************)
EXTENDS Integers, Sequences, FiniteSets, TLC

VARIABLES
    \* ---- process_and_speech_data: arguments and environment
    input_paths,          \* the sequence of paths (path k is the number k)
    output_fpath,         \* PyNone or a path
    remove_procedural,
    restrict_to_gop_dem,
    out_fpath_global,     \* TRUE iff the module global out_fpath is bound
                          \* (the module was run as __main__, line 252)
    outfile,              \* content of the destination file, a sequence of lines
    \* ---- process_and_speech_data: locals
    pc,                   \* "paths" | "content" | "done" | "aborted" | "idle"
    i,                    \* enumerate index of the current path (0-based)
    data,                 \* the loaded document: its title and header (its
                          \* content is read item by item)
    date,
    j,                    \* number of content items of data already iterated
    speech,               \* the content item of the last iteration
    speeches,
    returned,             \* the value returned at line 184
    error,                \* the exception that ended the run, "" if none
    warnings,             \* number of logging.warning calls so far
    emitted,              \* history: every clean_data that reached line 178
    items_read,           \* history: content items iterated so far, in all files
    \* ---- harness of the pure functions
    ft,                   \* filter_terms: arguments and result
    nz                    \* text normalization: arguments and results

vars == << input_paths, output_fpath, remove_procedural, restrict_to_gop_dem,
           out_fpath_global, outfile, pc, i, data, date, j, speech, speeches,
           returned, error, warnings, emitted, items_read, ft, nz >>

runVars == << input_paths, output_fpath, remove_procedural, restrict_to_gop_dem,
              out_fpath_global, outfile, pc, i, data, date, j, speech, speeches,
              returned, error, warnings, emitted, items_read >>

-----------------------------------------------------------------------------
(* Bounds of the model *)

\* Paths in input_paths.
MaxFiles == 2

\* Content items in all the documents of a run together.
MaxItems == 3

\* Terms of the legislator handed to filter_terms.
MaxTerms == 3

\* Characters of a raw speech text, and of a speaker's display name.
MaxTextLen == 5

MaxNameLen == 2

-----------------------------------------------------------------------------
(* Python values *)

PyNone == "<None>"

\* The characters of the model in code-point order: Ord is ord() up to an
\* order-preserving renumbering.
Chars == << "\n", " ", "-", ".", "0", "1", "2", "3", "4", "5", "6", "7", "8",
            "9", "A", "B", "X" >>

Ord(c) == CHOOSE k \in 1..Len(Chars) : Chars[k] = c

Digits == << "0", "1", "2", "3", "4", "5", "6", "7", "8", "9" >>

DigitVal(c) == (CHOOSE k \in 1..Len(Digits) : Digits[k] = c) - 1

\* a <= b on Python strings: lexicographic by code point, a proper prefix first.
RECURSIVE StrLE(_, _)
StrLE(a, b) ==
    IF a = << >> THEN TRUE
    ELSE IF b = << >> THEN FALSE
    ELSE IF Head(a) = Head(b) THEN StrLE(Tail(a), Tail(b))
    ELSE Ord(Head(a)) < Ord(Head(b))

\* int(s) of a string of decimal digits.
RECURSIVE IntOf(_)
IntOf(s) ==
    IF s = << >> THEN 0
    ELSE IntOf(SubSeq(s, 1, Len(s) - 1)) * Len(Digits) + DigitVal(s[Len(s)])

\* str(n) of a natural number.
RECURSIVE StrOf(_)
StrOf(n) ==
    IF n < Len(Digits) THEN << Digits[n + 1] >>
    ELSE StrOf(n \div Len(Digits)) \o << Digits[(n % Len(Digits)) + 1] >>

\* f"{n:02}": decimal, zero-padded on the left to width two, never cut.
Format02(n) ==
    LET s == StrOf(n) IN IF Len(s) < Len(<< "0", "0" >>) THEN << "0" >> \o s ELSE s


-----------------------------------------------------------------------------
(* Module constants *)

PROCEDURAL_TITLES ==
    { "APPOINTMENT OF ACTING PRESIDENT PRO TEMPORE",
      "HOUR OF MEETING ON TOMORROW",
      "ADJOURNMENT",
      "PLEDGE OF ALLEGIANCE",
      "THE JOURNAL",
      "EXECUTIVE REPORTS OF COMMITTEES",
      "UNANIMOUS CONSENT AGREEMENT--EXECUTIVE CALENDAR",
      "ADJOURNMENT UNTIL 9:30 A.M. TOMORROW",
      "APPOINTMENT",
      "AUTHORITY FOR COMMITTEES TO MEET",
      "PROGRAM",
      "EXECUTIVE REPORTS OF COMMITTEE",
      "PRIVILEGES OF THE FLOOR",
      "APPOINTMENTS",
      "GENERAL LEAVE",
      "ADJOURNMENT UNTIL 10 A.M. TOMORROW" }

MonthNames ==
    << "January", "February", "March", "April", "May", "June", "July",
       "August", "September", "October", "November", "December" >>

\* { strftime('%B') of month i : f"{i:02}" for i in range(1, 13) }
MONTH_MAP ==
    [ m \in { MonthNames[k] : k \in 1..Len(MonthNames) } |->
        Format02(CHOOSE k \in 1..Len(MonthNames) : MonthNames[k] = m) ]

-----------------------------------------------------------------------------
(* filter_terms *)

\* term["start"] < date < term["end"]: the interval without its ends.
InTermExclusive(d, term) ==
    /\ StrLE(term.start, d) /\ term.start # d
    /\ StrLE(d, term.end) /\ term.end # d

\* term["start"] <= date <= term["end"], on strings.
InTerm(d, term) == StrLE(term.start, d) /\ StrLE(d, term.end)

\* for term in reversed(terms): the position of the first term, counting down
\* from position k, that holds d; 0 when the loop runs out.
RECURSIVE ScanReversed(_, _, _)
ScanReversed(d, terms, k) ==
    IF k = 0 THEN 0
    ELSE IF InTerm(d, terms[k]) THEN k
    ELSE ScanReversed(d, terms, k - 1)

\* The same loop without reversed().
RECURSIVE ScanForward(_, _, _)
ScanForward(d, terms, k) ==
    IF k > Len(terms) THEN 0
    ELSE IF InTerm(d, terms[k]) THEN k
    ELSE ScanForward(d, terms, k + 1)

\* index: the position in terms of the term returned; warned: whether
\* logging.warning was called; raised: the exception, "" if none (terms[-1] of
\* an empty list).
TermResult(terms, k, warned) ==
    IF k = 0 /\ terms = << >>
    THEN [ raised |-> "IndexError", index |-> 0, term |-> PyNone, warned |-> FALSE ]
    ELSE IF k = 0
    THEN [ raised |-> "", index |-> Len(terms), term |-> terms[Len(terms)],
           warned |-> warned ]
    ELSE [ raised |-> "", index |-> k, term |-> terms[k], warned |-> FALSE ]

\* filter_terms with the loop of ScanForward.
filter_terms_forward(d, terms) == TermResult(terms, ScanForward(d, terms, 1), TRUE)

filter_terms(d, terms) == TermResult(terms, ScanReversed(d, terms, Len(terms)), TRUE)

-----------------------------------------------------------------------------
(* Text normalization: lines 147 and 165 *)

\* \s of the re module, among the characters of the model.
Whitespace == { " ", "\n" }

\* str.replace(name, "", 1): the first occurrence only.
RECURSIVE ReplaceFirstOnly(_, _)
ReplaceFirstOnly(text, name) ==
    IF name = << >> \/ Len(text) < Len(name) THEN text
    ELSE IF SubSeq(text, 1, Len(name)) = name
    THEN SubSeq(text, Len(name) + 1, Len(text))
    ELSE << Head(text) >> \o ReplaceFirstOnly(Tail(text), name)

\* str.replace(name, ""): every non-overlapping occurrence, left to right.
\* With an empty name, replace("", "") gives the text back.
RECURSIVE Replace(_, _)
Replace(text, name) ==
    IF name = << >> \/ Len(text) < Len(name) THEN text
    ELSE IF SubSeq(text, 1, Len(name)) = name
    THEN Replace(SubSeq(text, Len(name) + 1, Len(text)), name)
    ELSE << Head(text) >> \o Replace(Tail(text), name)

\* str.lstrip(". "): drops the leading characters that are "." or " ".
RECURSIVE Lstrip(_)
Lstrip(text) ==
    IF text # << >> /\ Head(text) \in { ".", " " } THEN Lstrip(Tail(text))
    ELSE text

RECURSIVE DropWhitespace(_)
DropWhitespace(text) ==
    IF text # << >> /\ Head(text) \in Whitespace THEN DropWhitespace(Tail(text))
    ELSE text

\* re.sub("\s\s", " ", text): whitespace taken two characters at a time.
RECURSIVE CollapsePairs(_)
CollapsePairs(text) ==
    IF text = << >> THEN << >>
    ELSE IF Len(text) > 1 /\ text[1] \in Whitespace /\ text[2] \in Whitespace
    THEN << " " >> \o CollapsePairs(Tail(Tail(text)))
    ELSE << Head(text) >> \o CollapsePairs(Tail(text))

\* re.sub("\s+", " ", text): every maximal run of whitespace becomes one space.
RECURSIVE Collapse(_)
Collapse(text) ==
    IF text = << >> THEN << >>
    ELSE IF Head(text) \in Whitespace
    THEN << " " >> \o Collapse(DropWhitespace(text))
    ELSE << Head(text) >> \o Collapse(Tail(text))

\* The "text" field of clean_data.
Normalize(text, name) == Collapse(Lstrip(Replace(text, name)))

-----------------------------------------------------------------------------
(* The inputs of a run *)

\* "YYYY-MM-DD" as a Python string.
Date(y, m, d) == StrOf(y) \o << "-" >> \o Format02(m) \o << "-" >> \o Format02(d)

\* dict.get(key, None)
Get(dict, key) == IF key \in DOMAIN dict THEN dict[key] ELSE PyNone

\* The legislator index handed to the run (the result of
\* process_legislator_data): terms in their stored order, "party" and "caucus"
\* present only where the source data has them.
legislator_data ==
    [ id \in { "S000001", "K000383" } |->
        IF id = "S000001"
        THEN [ last_name |-> "SMITH",
               terms |-> << [ start |-> Date(2013, 1, 3), end |-> Date(2015, 1, 3),
                              state |-> "TX", party |-> "Republican" ],
                            [ start |-> Date(2015, 1, 6), end |-> Date(2017, 1, 3),
                              state |-> "OK", party |-> "Independent" ] >> ]
        ELSE [ last_name |-> "KING",
               terms |-> << [ start |-> Date(2013, 1, 3), end |-> Date(2015, 1, 3),
                              state |-> "VT", party |-> "Independent",
                              caucus |-> "Democrat" ],
                            [ start |-> Date(2011, 1, 5), end |-> Date(2013, 1, 3),
                              state |-> "ME", caucus |-> "Independent" ] >> ] ]

\* data["header"]: the year and the day as the strings of the JSON document.
Headers ==
    [ year : { << "2", "0", "1", "4" >>, << "2", "0", "1", "9" >>,
               << "2", "0", "1" >>, << "2", "0", "1", "4", "0" >> },
      month : { "March", "Mar" },
      day : { << "3" >>, << "1", "0", "0" >> } ]

Titles == { "ADJOURNMENT", "FLOOR STATEMENT" }

\* One element of data["content"]; its "itemno" is its position.
ContentItems ==
    [ kind : { "speech", "title" },
      speaker_bioguide : { "S000001", "K000383", "X000999", "None", "" },
      speaker : { << "A" >> },
      text : { << "A", ".", " ", "B", "\n", "A" >> } ]

NoSpeech == [ kind |-> "", speaker_bioguide |-> "", speaker |-> << >>, text |-> << >> ]

NoData == [ title |-> "", header |-> PyNone ]

\* A line the destination may hold before the run.
StaleLine ==
    [ id |-> << 0, 0 >>, source_file |-> 0, date |-> << >>, text |-> << >>,
      speaker_id |-> "", party |-> PyNone, state |-> "" ]

-----------------------------------------------------------------------------
(* process_and_speech_data *)

\* Lines 132-136.
DateOf(header) ==
    header.year \o << "-" >> \o MONTH_MAP[header.month] \o << "-" >>
        \o Format02(IntOf(header.day))

\* Line 137.
DateAssertion(d) == Len(d) = Len(<< "X", "X", "X", "X", "-", "X", "X", "-", "X", "X" >>)

\* Lines 141-145 with a test for a known speaker added.
QualifiesKnown(sp) ==
    /\ sp.kind = "speech"
    /\ sp.speaker_bioguide # "None"
    /\ sp.speaker_bioguide # ""
    /\ sp.speaker_bioguide \in DOMAIN legislator_data

\* Lines 141-145.
Qualifies(sp) ==
    /\ sp.kind = "speech"
    /\ sp.speaker_bioguide # "None"
    /\ sp.speaker_bioguide # ""

GopDem == { "Republican", "Democrat" }

\* Lines 153-157: the party of the record, and whether the item is dropped.
PartyOf(term, restrict) ==
    LET party == Get(term, "party") IN
    IF restrict /\ party \notin GopDem
    THEN [ party |-> Get(term, "caucus"), drop |-> Get(term, "caucus") \notin GopDem ]
    ELSE [ party |-> party, drop |-> FALSE ]

\* Lines 159-176 (title, chamber, first_name, last_name and gender are copied
\* through and left out).
CleanData(path, itemno, d, sp, party, term) ==
    [ id |-> << path, itemno >>,
      source_file |-> path,
      date |-> d,
      text |-> Normalize(sp.text, sp.speaker),
      speaker_id |-> sp.speaker_bioguide,
      party |-> party,
      state |-> term.state ]

\* Line 124.
InitSpeeches(out) == IF out # PyNone THEN << >> ELSE PyNone

\* Line 179: the mode of open(), from the index of the path.
OpenMode(idx) == IF idx = 0 THEN "w" ELSE "a"

\* Lines 179-180: the file after open(mode) and one write.
Written(content, mode, line) ==
    IF mode = "w" THEN << line >> ELSE Append(content, line)

Abort(e) ==
    /\ pc' = "aborted"
    /\ error' = e

\* Lines 126-137: one iteration of the loop over input_paths, up to the loop
\* over the content.
LoadFile ==
    /\ pc = "paths"
    /\ i < Len(input_paths)
    /\ \E title \in Titles, header \in Headers :
        /\ data' = [ title |-> title, header |-> header ]
        /\ speech' = NoSpeech
        /\ j' = 0
        /\ IF remove_procedural /\ title \in PROCEDURAL_TITLES
           THEN /\ i' = i + 1
                /\ UNCHANGED << pc, error, date >>
           ELSE IF header.month \notin DOMAIN MONTH_MAP
           THEN /\ Abort("KeyError: MONTH_MAP")
                /\ UNCHANGED << i, date >>
           ELSE IF ~DateAssertion(DateOf(header))
           THEN /\ Abort("AssertionError")
                /\ date' = DateOf(header)
                /\ UNCHANGED i
           ELSE /\ date' = DateOf(header)
                /\ pc' = "content"
                /\ UNCHANGED << i, error >>
    /\ UNCHANGED << input_paths, output_fpath, remove_procedural,
                    restrict_to_gop_dem, out_fpath_global, outfile, speeches,
                    returned, warnings, emitted, items_read, ft, nz >>

\* Lines 140-182: one iteration of the loop over data["content"].
ProcessItem ==
    /\ pc = "content"
    /\ items_read < MaxItems
    /\ \E sp \in ContentItems :
        /\ speech' = sp
        /\ j' = j + 1
        /\ items_read' = items_read + 1
        /\ IF ~Qualifies(sp)
           THEN UNCHANGED << pc, error, warnings, emitted, outfile, speeches >>
           ELSE IF sp.speaker_bioguide \notin DOMAIN legislator_data
           THEN /\ Abort("KeyError: legislator_data")
                /\ UNCHANGED << warnings, emitted, outfile, speeches >>
           ELSE
             LET legislator == legislator_data[sp.speaker_bioguide]
                 res == filter_terms(date, legislator.terms)
                 p == PartyOf(res.term, restrict_to_gop_dem)
                 clean_data == CleanData(input_paths[i + 1], j + 1, date, sp,
                                         p.party, res.term)
             IN
             IF res.raised # ""
             THEN /\ Abort(res.raised)
                  /\ UNCHANGED << warnings, emitted, outfile, speeches >>
             ELSE
               /\ warnings' = IF res.warned THEN warnings + 1 ELSE warnings
               /\ IF p.drop
                  THEN UNCHANGED << pc, error, emitted, outfile, speeches >>
                  ELSE
                    /\ emitted' = Append(emitted, clean_data)
                    /\ IF output_fpath # PyNone
                       THEN IF ~out_fpath_global
                            THEN /\ Abort("NameError: out_fpath")
                                 /\ UNCHANGED << outfile, speeches >>
                            ELSE /\ outfile' = Written(outfile, OpenMode(i),
                                                       clean_data)
                                 /\ UNCHANGED << pc, error, speeches >>
                       ELSE IF speeches = PyNone
                            THEN /\ Abort("AttributeError: speeches.append")
                                 /\ UNCHANGED << outfile, speeches >>
                            ELSE /\ speeches' = Append(speeches, clean_data)
                                 /\ UNCHANGED << pc, error, outfile >>
    /\ UNCHANGED << input_paths, output_fpath, remove_procedural,
                    restrict_to_gop_dem, out_fpath_global, i, data, date,
                    returned, ft, nz >>

\* The loop over data["content"] runs out: on to the next path.
NextFile ==
    /\ pc = "content"
    /\ pc' = "paths"
    /\ i' = i + 1
    /\ UNCHANGED << input_paths, output_fpath, remove_procedural,
                    restrict_to_gop_dem, out_fpath_global, outfile, data, date,
                    j, speech, speeches, returned, error, warnings, emitted,
                    items_read, ft, nz >>

\* Line 184: the loop over input_paths runs out.
Return ==
    /\ pc = "paths"
    /\ i = Len(input_paths)
    /\ pc' = "done"
    /\ returned' = speeches
    /\ UNCHANGED << input_paths, output_fpath, remove_procedural,
                    restrict_to_gop_dem, out_fpath_global, outfile, i, data,
                    date, j, speech, speeches, error, warnings, emitted,
                    items_read, ft, nz >>

NoHarness == [ pc |-> "idle" ]

\* A call of process_and_speech_data.  Run as __main__ (lines 252-260) the
\* destination is the global out_fpath itself; called from another module the
\* global is unbound and the destination is the caller's choice.
Init ==
    /\ input_paths \in { [ k \in 1..n |-> k ] : n \in 1..MaxFiles }
    /\ remove_procedural \in BOOLEAN
    /\ restrict_to_gop_dem \in BOOLEAN
    /\ output_fpath \in { PyNone, "speeches.jsonl" }
    /\ out_fpath_global \in BOOLEAN
    /\ out_fpath_global => output_fpath # PyNone
    /\ outfile \in { << >>, << StaleLine >> }
    /\ pc = "paths"
    /\ i = 0
    /\ data = NoData
    /\ date = << >>
    /\ j = 0
    /\ speech = NoSpeech
    /\ speeches = InitSpeeches(output_fpath)
    /\ returned = PyNone
    /\ error = ""
    /\ warnings = 0
    /\ emitted = << >>
    /\ items_read = 0
    /\ ft = NoHarness
    /\ nz = NoHarness

Next == LoadFile \/ ProcessItem \/ NextFile \/ Return

Spec == Init /\ [][Next]_vars

-----------------------------------------------------------------------------
(* Properties of a run *)

\* The step is one iteration of the loop over data["content"]; speech' is
\* the item it read.
ItemStep == items_read' # items_read

\* The item is an attributed speech: it passes lines 141-145.
Attributed(sp) ==
    sp.kind = "speech" /\ sp.speaker_bioguide \notin { "None", "" }

\* clean_data went to the sink in this step: it is the last line of the
\* destination, or the last element of the list to return.
Delivered(rec) ==
    IF output_fpath # PyNone
    THEN outfile' # << >> /\ outfile'[Len(outfile')] = rec /\ outfile' # outfile
    ELSE speeches' # PyNone /\ speeches' = Append(speeches, rec)

\* C1: a run with a destination that finishes normally leaves in it exactly
\* the records emitted, one per line and in emission order: the first record
\* of the run truncates the destination and every later one is appended.
C1_DestinationHoldsEmitted ==
    (pc = "done" /\ output_fpath # PyNone /\ emitted # << >>) => outfile = emitted

\* C2: a run without a destination is not ended by its own sink, and returns
\* the sequence of the qualifying records in order.
C2_ReturnsAllRecords ==
    output_fpath = PyNone =>
        /\ error # "AttributeError: speeches.append"
        /\ pc = "done" => returned = emitted

\* C5: when the date of the document lies outside every term of the speaker,
\* the term resolved is the last one stored, exactly one warning is logged
\* for the item, and the run goes on: unless the party restriction drops the
\* item, its record is emitted with that term's party and state.
C5_FallbackContinues ==
    [][ (/\ ItemStep
         /\ Attributed(speech')
         /\ speech'.speaker_bioguide \in DOMAIN legislator_data
         /\ \A k \in 1..Len(legislator_data[speech'.speaker_bioguide].terms) :
              LET t == legislator_data[speech'.speaker_bioguide].terms[k]
              IN  ~(StrLE(t.start, date) /\ StrLE(date, t.end)))
        =>
        LET terms == legislator_data[speech'.speaker_bioguide].terms
            last == terms[Len(terms)]
            party == IF restrict_to_gop_dem /\ Get(last, "party") \notin GopDem
                     THEN Get(last, "caucus") ELSE Get(last, "party")
        IN  /\ warnings' = warnings + 1
            /\ pc' = "content"
            /\ error' = ""
            /\ (restrict_to_gop_dem /\ party \notin GopDem)
               \/ /\ emitted' # emitted
                  /\ Delivered(emitted'[Len(emitted')])
                  /\ emitted'[Len(emitted')].id = << input_paths[i + 1], j' >>
                  /\ emitted'[Len(emitted')].party = party
                  /\ emitted'[Len(emitted')].state = last.state
      ]_vars

\* C6: under restrict_to_gop_dem an attributed speech of a known speaker is
\* emitted if and only if the party of the resolved term or, failing that,
\* its caucus is Republican or Democrat; the party of the record is the
\* term's party when it is one of the two and the caucus otherwise; an item
\* that is dropped leaves the run going.
C6_PartyRestriction ==
    [][ (/\ ItemStep
         /\ restrict_to_gop_dem
         /\ Attributed(speech')
         /\ speech'.speaker_bioguide \in DOMAIN legislator_data)
        =>
        LET term == filter_terms(date,
                        legislator_data[speech'.speaker_bioguide].terms).term
            party == Get(term, "party")
            caucus == Get(term, "caucus")
            kept == party \in GopDem \/ caucus \in GopDem
            rec == emitted'[Len(emitted')]
        IN  /\ kept <=> (emitted' # emitted /\ Delivered(rec))
            /\ kept => rec.party = (IF party \in GopDem THEN party ELSE caucus)
            /\ kept => rec.party \in GopDem
            /\ ~kept => (pc' = "content" /\ error' = ""
                           /\ UNCHANGED << outfile, speeches, emitted >>)
      ]_vars

\* The item is a speech whose speaker identifier is present, is not "None",
\* and is not a key of the legislator index.
UnknownSpeaker(sp) ==
    /\ sp.kind = "speech"
    /\ sp.speaker_bioguide \notin { "None", "" }
    /\ sp.speaker_bioguide \notin DOMAIN legislator_data

\* C7: a speech item with a speaker identifier that is present, not "None"
\* and absent from the legislator index ends the run with an error at that
\* item, under every configuration: the item is not skipped, no record is
\* emitted for it, and nothing runs after the error.
C7_UnknownSpeakerAborts ==
    /\ [][ (ItemStep /\ UnknownSpeaker(speech')) =>
              /\ pc' = "aborted"
              /\ error' = "KeyError: legislator_data"
              /\ UNCHANGED << outfile, speeches, emitted, returned, warnings >>
         ]_vars
    /\ [](pc = "aborted" => ~ENABLED Next)

\* The run ends at an unknown speaker in its second document, under both
\* filters, after records were written to the destination.
C7_Witness ==
    /\ pc = "aborted"
    /\ error = "KeyError: legislator_data"
    /\ UnknownSpeaker(speech)
    /\ remove_procedural
    /\ restrict_to_gop_dem
    /\ i > 0
    /\ outfile # << >>
    /\ outfile = emitted

IsDigit(c) == \E k \in 1..Len(Digits) : Digits[k] = c

\* YYYY-MM-DD: four digits, a month 01-12 and a day of two digits.
WellFormedDate(d) ==
    /\ Len(d) = 10
    /\ d[5] = "-"
    /\ d[8] = "-"
    /\ \A k \in { 1, 2, 3, 4, 6, 7, 9, 10 } : IsDigit(d[k])
    /\ IntOf(SubSeq(d, 6, 7)) \in 1..12

\* C8: the date of every record is a well-formed YYYY-MM-DD string, and a
\* header that does not resolve to one ends the run before any item of the
\* document is read.
C8_DatesWellFormed ==
    /\ pc = "content" => WellFormedDate(date)
    /\ \A k \in 1..Len(outfile) :
          outfile[k] # StaleLine => WellFormedDate(outfile[k].date)

-----------------------------------------------------------------------------
(* filter_terms on its own: every date and term list within the bounds *)

SeqsUpTo(S, n) == UNION { [ 1..k -> S ] : k \in 0..n }

TermDates == { Date(2013, 1, 3), Date(2015, 1, 3), Date(2017, 1, 3) }

\* Terms with start <= end, in any order and with any overlap.
HarnessTerms ==
    { t \in [ start : TermDates, end : TermDates, state : { "TX", "VT" } ] :
        StrLE(t.start, t.end) }

\* The term boundaries, a date inside a term, a date after every term, and
\* a date string that is not of the YYYY-MM-DD form.
QueryDates ==
    TermDates \cup { Date(2014, 6, 10), Date(2019, 2, 5),
                     << "2", "0", "1", "-", "0", "3", "-", "1", "0", "0" >> }

RunIdle ==
    /\ input_paths = << >>
    /\ remove_procedural = FALSE
    /\ restrict_to_gop_dem = FALSE
    /\ output_fpath = PyNone
    /\ out_fpath_global = FALSE
    /\ outfile = << >>
    /\ pc = "idle"
    /\ i = 0
    /\ data = NoData
    /\ date = << >>
    /\ j = 0
    /\ speech = NoSpeech
    /\ speeches = PyNone
    /\ returned = PyNone
    /\ error = ""
    /\ warnings = 0
    /\ emitted = << >>
    /\ items_read = 0

InitTerms ==
    /\ RunIdle
    /\ nz = NoHarness
    /\ ft \in [ pc : { "call" }, date : QueryDates,
                terms : SeqsUpTo(HarnessTerms, MaxTerms), result : { PyNone } ]

CallFilterTerms ==
    /\ ft.pc = "call"
    /\ ft' = [ ft EXCEPT !.pc = "returned",
                         !.result = filter_terms(ft.date, ft.terms) ]
    /\ UNCHANGED << runVars, nz >>

NextTerms == CallFilterTerms

SpecTerms == InitTerms /\ [][NextTerms]_vars

\* The positions of the terms whose interval holds the date, both ends included.
Holding == { k \in 1..Len(ft.terms) :
               StrLE(ft.terms[k].start, ft.date) /\ StrLE(ft.date, ft.terms[k].end) }

Last(K) == CHOOSE k \in K : \A m \in K : m <= k

First(K) == CHOOSE k \in K : \A m \in K : k <= m

-----------------------------------------------------------------------------
(* Text normalization on its own, applied once and then again *)

TextChars == { "A", "B", ".", " ", "\n" }

NameChars == { "A", "B" }

InitNorm ==
    /\ RunIdle
    /\ ft = NoHarness
    /\ nz \in [ pc : { "raw" }, text : SeqsUpTo(TextChars, MaxTextLen),
                speaker : SeqsUpTo(NameChars, MaxNameLen),
                out1 : { << >> }, out2 : { << >> } ]

NormalizeOnce ==
    /\ nz.pc = "raw"
    /\ nz' = [ nz EXCEPT !.pc = "once", !.out1 = Normalize(nz.text, nz.speaker) ]
    /\ UNCHANGED << runVars, ft >>

NormalizeAgain ==
    /\ nz.pc = "once"
    /\ nz' = [ nz EXCEPT !.pc = "twice", !.out2 = Normalize(nz.out1, nz.speaker) ]
    /\ UNCHANGED << runVars, ft >>

NextNorm == NormalizeOnce \/ NormalizeAgain

SpecNorm == InitNorm /\ [][NextNorm]_vars

\* name occurs in s at position p.
OccursAt(name, s, p) ==
    /\ p >= 1
    /\ p + Len(name) - 1 <= Len(s)
    /\ SubSeq(s, p, p + Len(name) - 1) = name

Occurs(name, s) == name # << >> /\ \E p \in 1..Len(s) : OccursAt(name, s, p)

\* name occurs in s, and again after the end of that occurrence.
OccursAgain(name, s) ==
    /\ name # << >>
    /\ \E p, q \in 1..Len(s) :
        OccursAt(name, s, p) /\ OccursAt(name, s, q) /\ q >= p + Len(name)

StartsWithDotOrSpace(s) == s # << >> /\ Head(s) \in { ".", " " }

\* C9, as the specification states it: normalizing the normalized text again,
\* with the same speaker name, gives the same text.
C9_Idempotent == nz.pc = "twice" => nz.out2 = nz.out1

\* C9, amended: normalizing the normalized text again gives the same text
\* exactly when the normalized text holds no occurrence of the speaker name
\* and does not start with a period or a space.
C9_StableUnlessNameOrLeadingStrip ==
    nz.pc = "twice" =>
        (nz.out2 = nz.out1 <=>
            (~Occurs(nz.speaker, nz.out1) /\ ~StartsWithDotOrSpace(nz.out1)))

\* A text whose name, leading period and whitespace runs the first pass took
\* out, and which the second pass leaves alone.
C9_Witness ==
    /\ nz.pc = "twice"
    /\ Occurs(nz.speaker, nz.text)
    /\ StartsWithDotOrSpace(Replace(nz.text, nz.speaker))
    /\ \E p \in 1..Len(nz.text) : nz.text[p] = "\n"
    /\ nz.out1 # << >>
    /\ nz.out2 = nz.out1

=============================================================================
